---- MODULE Spec2Model ----
(***************************************************************************)
(* Model of package pacer (src/pkg/pacer/pacer.go): a ReaderPacer or a     *)
(* WriterPacer embeds a Pacer {bytesPerSecond, clock} and, after every     *)
(* successful Read/Write of the wrapped stream, calls pace(cc), the        *)
(* virtual clock algorithm.                                                *)
(*                                                                         *)
(* Time is an integer number of ticks since the zero time.Time; one second *)
(* is Second ticks (time.Second is 10^9 ns in the program; the model keeps *)
(* the arithmetic of line 31, truncating division included, at a coarser   *)
(* resolution).  The wall clock `wall` advances by Tick at any moment, so  *)
(* time may pass between any two statements and a Sleep may return late.   *)
(***************************************************************************)
EXTENDS Integers, FiniteSets, Sequences, TLC

\* ---------------------------------------------------------------- bounds
Second   == 2      \* ticks per second: the resolution of the model's clock
MaxLen   == 2      \* largest len(b) handed to Read/Write
MaxCalls == 3      \* Read/Write calls issued in one behaviour
Horizon  == 6      \* ticks of wall time that pass in one behaviour
MaxConc  == 2      \* calls issued by unsynchronized callers in one behaviour

\* rates handed to the constructors (any int is accepted by the code)
Rates    == {-3, 0, 1, 3}
Contexts == {1, 2}                \* goroutines that call Read/Write
Serial   == {1}                   \* serialized use: one goroutine makes the calls
Errs     == {"nil", "EOF", "err"} \* error values of the wrapped stream
ZeroTime == 0                     \* time.Time{}: IsZero() holds of it alone
StartTime == 10 * Second          \* time.Now() when the program starts

VARIABLES
    kind,            \* "none" | "reader" | "writer": which wrapper was built
    bytesPerSecond,  \* Pacer.bytesPerSecond
    clock,           \* Pacer.clock
    wall,            \* what time.Now() returns
    pc,              \* per context: position in Read/Write/pace
    len,             \* per context: len(b) of the call
    cc,              \* per context: cc of Read/Write (count of the stream)
    err,             \* per context: err of Read/Write
    pcc,             \* per context: parameter cc of pace
    now,             \* per context: local now of pace
    delay,           \* per context: local delay of pace
    wake,            \* per context: earliest wall time time.Sleep returns
    tmp,             \* per context: p.clock as line 32 loaded it
    result,          \* per context: what the last Read/Write returned
    other,           \* the Pacer of the wrapper that is not selected
    arith,           \* line 31 at the width of the program's integers
    hist             \* history of the run, read by the properties only

vars == <<kind, bytesPerSecond, clock, wall, pc, len, cc, err, pcc, now,
          delay, wake, tmp, result, other, arith, hist>>

locals == <<len, cc, err, pcc, now, delay, wake, tmp>>

\* ------------------------------------------------------- time and integers
Abs(x) == IF x < 0 THEN -x ELSE x

\* Go's integer division truncates toward zero
Quot(a, b) == IF (a >= 0) = (b > 0) THEN Abs(a) \div Abs(b)
                                    ELSE -(Abs(a) \div Abs(b))

Max(a, b) == IF a >= b THEN a ELSE b

\* floor(a / b) for b # 0
FloorDiv(a, b) == IF b > 0 THEN a \div b ELSE (-a) \div (-b)

IsZero(t)   == t = ZeroTime
Add(t, d)   == t + d
\* a comparison that ignores a clock one tick ahead
AfterLate(t, u) == t > u + 1

After(t, u) == t > u
Sub(t, u)   == t - u

\* a delay computed without time.Second
DelayNoSecond(n, rate) == Quot(n, rate)

\* a delay clamped to at least one tick
DelayMin1(n, rate) == Max(1, Quot(Second * n, rate))

\* line 31: delay := time.Duration((int(time.Second) * cc) / p.bytesPerSecond)
Delay(n, rate) == Quot(Second * n, rate)

\* a sleep that is one tick short
SleepForShort(clk, t) == Sub(clk, t) - 1

\* line 34: the duration handed to time.Sleep
SleepFor(clk, t) == Sub(clk, t)

\* pace charged for the size of the buffer
PaceArgLen(n, l) == l

\* lines 63 and 80: the argument of pace is the count the stream returned
PaceArg(n, l) == n

NoResult == [cc |-> 0, err |-> "none"]

\* a Pacer no constructor has filled in
NoPacer == [kind |-> "none", bytesPerSecond |-> 0, clock |-> ZeroTime]

\* no computation at full width in progress
NoArith == [stage |-> "none"]

\* ---------------------------------------------------------------- history
\* Read by the properties only.  t0: wall time read by the first pace call;
\* bytes, delays, n: totals over the successful transfers that have
\* returned (floors: the sum of floor(Second * cc / bytesPerSecond) over
\* them); calls: Read/Write calls issued; lastRet: wall time of the last
\* successful return while no time has passed since (0 otherwise).  Of the
\* call in progress: clock0: the clock when it was issued; first: it
\* initialized the clock; slept: the duration it handed to time.Sleep.
\* credit: wall time read minus clock found by the first pace call after
\* time passed between calls; burst: bytes of the successful transfers
\* returned since, while no time passed between calls and credit is left
\* (both are 0 otherwise); overlap: a call started while another one was in
\* progress.
HistInit == [t0 |-> 0, bytes |-> 0, delays |-> 0, floors |-> 0, n |-> 0,
             calls |-> 0,
             lastRet |-> 0, clock0 |-> ZeroTime, first |-> FALSE,
             slept |-> 0, credit |-> 0, burst |-> 0, overlap |-> FALSE]

InitPacer ==
    /\ kind = "none"
    /\ bytesPerSecond = 0
    /\ clock = ZeroTime
    /\ wall = StartTime
    /\ pc = [c \in Contexts |-> "idle"]
    /\ len = [c \in Contexts |-> 0]
    /\ cc = [c \in Contexts |-> 0]
    /\ err = [c \in Contexts |-> "nil"]
    /\ pcc = [c \in Contexts |-> 0]
    /\ now = [c \in Contexts |-> 0]
    /\ delay = [c \in Contexts |-> 0]
    /\ wake = [c \in Contexts |-> 0]
    /\ tmp = [c \in Contexts |-> ZeroTime]
    /\ result = [c \in Contexts |-> NoResult]
    /\ other = NoPacer
    /\ hist = HistInit

Init ==
    /\ InitPacer
    /\ arith = NoArith

\* ----------------------------------------------------------- constructors
NewReaderPacer(rate) ==
    /\ kind = "none"
    /\ kind' = "reader"
    /\ bytesPerSecond' = rate
    /\ UNCHANGED <<clock, wall, pc, locals, result, hist>>
    /\ UNCHANGED <<other, arith>>

NewWriterPacer(rate) ==
    /\ kind = "none"
    /\ kind' = "writer"
    /\ bytesPerSecond' = rate
    /\ UNCHANGED <<clock, wall, pc, locals, result, hist>>
    /\ UNCHANGED <<other, arith>>

\* ------------------------------------------------------------- wall clock
Idle == \A c \in Contexts : pc[c] \in {"idle", "panicked"}

Tick ==
    /\ wall < StartTime + Horizon
    /\ wall' = wall + 1
    /\ hist' = IF Idle THEN [hist EXCEPT !.lastRet = 0, !.credit = 0,
                                         !.burst = 0]
                       ELSE hist
    /\ UNCHANGED <<kind, bytesPerSecond, clock, pc, locals, result>>
    /\ UNCHANGED <<other, arith>>

\* ------------------------------------------------------------ Read / Write
\* the frame of a call that has returned
Reset(c) ==
    /\ len' = [len EXCEPT ![c] = 0]
    /\ cc' = [cc EXCEPT ![c] = 0]
    /\ err' = [err EXCEPT ![c] = "nil"]
    /\ pcc' = [pcc EXCEPT ![c] = 0]
    /\ now' = [now EXCEPT ![c] = 0]
    /\ delay' = [delay EXCEPT ![c] = 0]
    /\ wake' = [wake EXCEPT ![c] = 0]
    /\ tmp' = [tmp EXCEPT ![c] = ZeroTime]

\* lines 59 and 76: the wrapped stream is called with a buffer of l bytes
\* and returns (n, e)
Underlying(c, l, n, e) ==
    /\ pc[c] = "idle"
    /\ hist.calls < MaxCalls
    /\ pc' = [pc EXCEPT ![c] = "l60"]
    /\ len' = [len EXCEPT ![c] = l]
    /\ cc' = [cc EXCEPT ![c] = n]
    /\ err' = [err EXCEPT ![c] = e]
    /\ result' = [result EXCEPT ![c] = NoResult]
    /\ hist' = [hist EXCEPT !.calls = @ + 1, !.clock0 = clock,
                            !.overlap = @ \/ ~Idle]
    /\ UNCHANGED <<kind, bytesPerSecond, clock, wall, pcc, now, delay, wake,
                   tmp>>
    /\ UNCHANGED <<other, arith>>

Read(c) ==
    /\ kind = "reader"
    /\ \E l \in 0..MaxLen : \E n \in 0..l : \E e \in Errs :
          Underlying(c, l, n, e)

Write(c) ==
    /\ kind = "writer"
    /\ \E l \in 0..MaxLen : \E n \in 0..l : \E e \in Errs :
          Underlying(c, l, n, e)

\* an error check that lets a failed call with cc > 0 go on to pace
ErrCheckCount(c) ==
    /\ pc[c] = "l60"
    /\ IF err[c] # "nil" /\ cc[c] = 0
         THEN /\ result' = [result EXCEPT ![c] = [cc |-> cc[c], err |-> err[c]]]
              /\ pc' = [pc EXCEPT ![c] = "idle"]
              /\ Reset(c)
              /\ hist' = [hist EXCEPT !.clock0 = ZeroTime]
         ELSE /\ pcc' = [pcc EXCEPT ![c] = PaceArg(cc[c], len[c])]
              /\ pc' = [pc EXCEPT ![c] = "l27"]
              /\ UNCHANGED <<result, len, cc, err, now, delay, wake, tmp,
                             hist>>
    /\ UNCHANGED <<kind, bytesPerSecond, clock, wall>>
    /\ UNCHANGED <<other, arith>>

\* lines 60-63 and 77-80: an error of the stream is returned as it is;
\* otherwise pace is called with the count
ErrCheck(c) ==
    /\ pc[c] = "l60"
    /\ IF err[c] # "nil"
         THEN /\ result' = [result EXCEPT ![c] = [cc |-> cc[c], err |-> err[c]]]
              /\ pc' = [pc EXCEPT ![c] = "idle"]
              /\ Reset(c)
              /\ hist' = [hist EXCEPT !.clock0 = ZeroTime]
         ELSE /\ pcc' = [pcc EXCEPT ![c] = PaceArg(cc[c], len[c])]
              /\ pc' = [pc EXCEPT ![c] = "l27"]
              /\ UNCHANGED <<result, len, cc, err, now, delay, wake, tmp,
                             hist>>
    /\ UNCHANGED <<kind, bytesPerSecond, clock, wall>>
    /\ UNCHANGED <<other, arith>>

\* ------------------------------------------------------------------- pace
\* line 27: now := time.Now()
PaceNow(c) ==
    /\ pc[c] = "l27"
    /\ now' = [now EXCEPT ![c] = wall]
    /\ pc' = [pc EXCEPT ![c] = "l28"]
    /\ hist' = [hist EXCEPT !.credit = IF hist.lastRet = 0 /\ ~IsZero(clock)
                                         THEN wall - clock ELSE @]
    /\ UNCHANGED <<kind, bytesPerSecond, clock, wall, len, cc, err, pcc,
                   delay, wake, tmp, result>>
    /\ UNCHANGED <<other, arith>>

\* an initialization that also moves a clock that is behind up to now
PaceInitCatchUp(c) ==
    /\ pc[c] = "l28"
    /\ IF IsZero(clock)
         THEN /\ clock' = now[c]
              /\ hist' = [hist EXCEPT !.first = TRUE,
                                      !.t0 = IF hist.t0 = 0 THEN now[c] ELSE @]
         ELSE /\ clock' = Max(clock, now[c])
              /\ UNCHANGED hist
    /\ pc' = [pc EXCEPT ![c] = "l31"]
    /\ UNCHANGED <<kind, bytesPerSecond, wall, locals, result>>
    /\ UNCHANGED <<other, arith>>

\* an initialization that caps the credit of a clock behind at one tick
PaceInitCapped(c) ==
    /\ pc[c] = "l28"
    /\ IF IsZero(clock)
         THEN /\ clock' = now[c]
              /\ hist' = [hist EXCEPT !.first = TRUE,
                                      !.t0 = IF hist.t0 = 0 THEN now[c] ELSE @]
         ELSE /\ clock' = Max(clock, now[c] - 1)
              /\ UNCHANGED hist
    /\ pc' = [pc EXCEPT ![c] = "l31"]
    /\ UNCHANGED <<kind, bytesPerSecond, wall, locals, result>>
    /\ UNCHANGED <<other, arith>>

\* lines 28-30: if p.clock.IsZero() { p.clock = now }
PaceInit(c) ==
    /\ pc[c] = "l28"
    /\ IF IsZero(clock)
         THEN /\ clock' = now[c]
              /\ hist' = [hist EXCEPT !.first = TRUE,
                                      !.t0 = IF hist.t0 = 0 THEN now[c] ELSE @]
         ELSE UNCHANGED <<clock, hist>>
    /\ pc' = [pc EXCEPT ![c] = "l31"]
    /\ UNCHANGED <<kind, bytesPerSecond, wall, locals, result>>
    /\ UNCHANGED <<other, arith>>

\* line 31: the delay; the division panics when bytesPerSecond is 0
PaceDelay(c) ==
    /\ pc[c] = "l31"
    /\ IF bytesPerSecond = 0
         THEN /\ pc' = [pc EXCEPT ![c] = "panicked"]
              /\ UNCHANGED delay
         ELSE /\ delay' = [delay EXCEPT ![c] = Delay(pcc[c], bytesPerSecond)]
              /\ pc' = [pc EXCEPT ![c] = "l32"]
    /\ UNCHANGED <<kind, bytesPerSecond, clock, wall, len, cc, err, pcc, now,
                   wake, tmp, result, hist>>
    /\ UNCHANGED <<other, arith>>

\* a pace whose line 32 writes the clock of both wrappers
PaceAddShared(c) ==
    /\ pc[c] = "l32"
    /\ clock' = Add(clock, delay[c])
    /\ other' = [other EXCEPT !.clock = Add(clock, delay[c])]
    /\ pc' = [pc EXCEPT ![c] = "l33"]
    /\ UNCHANGED <<kind, bytesPerSecond, wall, locals, result, hist, arith>>

\* line 32: p.clock = p.clock.Add(delay)
PaceAdd(c) ==
    /\ pc[c] = "l32"
    /\ clock' = Add(clock, delay[c])
    /\ pc' = [pc EXCEPT ![c] = "l33"]
    /\ UNCHANGED <<kind, bytesPerSecond, wall, locals, result, hist>>
    /\ UNCHANGED <<other, arith>>

\* a pace that moves a clock found behind up to now instead of sleeping
PaceSleepCatchUp(c) ==
    /\ pc[c] = "l33"
    /\ IF After(clock, now[c])
         THEN /\ wake' = [wake EXCEPT ![c] = wall + SleepFor(clock, now[c])]
              /\ hist' = [hist EXCEPT !.slept = SleepFor(clock, now[c])]
              /\ pc' = [pc EXCEPT ![c] = "sleeping"]
              /\ UNCHANGED clock
         ELSE /\ pc' = [pc EXCEPT ![c] = "l36"]
              /\ clock' = now[c]
              /\ UNCHANGED <<wake, hist>>
    /\ UNCHANGED <<kind, bytesPerSecond, wall, len, cc, err, pcc, now,
                   delay, tmp, result>>
    /\ UNCHANGED <<other, arith>>

\* lines 33-35: if p.clock.After(now) { time.Sleep(p.clock.Sub(now)) }
PaceSleep(c) ==
    /\ pc[c] = "l33"
    /\ IF After(clock, now[c])
         THEN /\ wake' = [wake EXCEPT ![c] = wall + SleepFor(clock, now[c])]
              /\ hist' = [hist EXCEPT !.slept = SleepFor(clock, now[c])]
              /\ pc' = [pc EXCEPT ![c] = "sleeping"]
         ELSE /\ pc' = [pc EXCEPT ![c] = "l36"]
              /\ UNCHANGED <<wake, hist>>
    /\ UNCHANGED <<kind, bytesPerSecond, clock, wall, len, cc, err, pcc, now,
                   delay, tmp, result>>
    /\ UNCHANGED <<other, arith>>

\* a sleep that may return before its duration has passed
WakeEarly(c) ==
    /\ pc[c] = "sleeping"
    /\ pc' = [pc EXCEPT ![c] = "l36"]
    /\ UNCHANGED <<kind, bytesPerSecond, clock, wall, locals, result, hist>>
    /\ UNCHANGED <<other, arith>>

\* time.Sleep returns once at least its duration has passed
Wake(c) ==
    /\ pc[c] = "sleeping"
    /\ wall >= wake[c]
    /\ pc' = [pc EXCEPT ![c] = "l36"]
    /\ UNCHANGED <<kind, bytesPerSecond, clock, wall, locals, result, hist>>
    /\ UNCHANGED <<other, arith>>

\* the credit measured is used up once the call of c returns
Spent(c) ==
    \/ hist.slept > 0
    \/ Second * (hist.burst + cc[c]) >= hist.credit * bytesPerSecond

\* lines 36, 64 and 81: pace returns, and Read/Write returns cc, nil
Return(c) ==
    /\ pc[c] = "l36"
    /\ result' = [result EXCEPT ![c] = [cc |-> cc[c], err |-> "nil"]]
    /\ pc' = [pc EXCEPT ![c] = "idle"]
    /\ Reset(c)
    /\ hist' = [hist EXCEPT !.bytes = @ + cc[c],
                            !.burst = IF Spent(c) THEN 0 ELSE @ + cc[c],
                            !.credit = IF Spent(c) THEN 0 ELSE @,
                            !.delays = @ + delay[c],
                            !.floors = @ + FloorDiv(Second * cc[c],
                                                    bytesPerSecond),
                            !.n = @ + 1,
                            !.lastRet = wall,
                            !.clock0 = ZeroTime,
                            !.first = FALSE,
                            !.slept = 0]
    /\ UNCHANGED <<kind, bytesPerSecond, clock, wall>>
    /\ UNCHANGED <<other, arith>>

Step(c) ==
    \/ ErrCheck(c)
    \/ PaceNow(c)
    \/ PaceInit(c)
    \/ PaceDelay(c)
    \/ PaceAdd(c)
    \/ PaceSleep(c)
    \/ Wake(c)
    \/ Return(c)

Next ==
    \/ \E rate \in Rates : NewReaderPacer(rate)
    \/ \E rate \in Rates : NewWriterPacer(rate)
    \/ Tick
    \/ \E c \in Serial : Read(c)
    \/ \E c \in Serial : Write(c)
    \/ \E c \in Serial : Step(c)

Spec == Init /\ [][Next]_vars

\* --------------------------------------------------------------- progress
\* time does not stop at the horizon while a goroutine sleeps
TickSleep ==
    /\ wall >= StartTime + Horizon
    /\ \E c \in Contexts : pc[c] = "sleeping" /\ wall < wake[c]
    /\ wall' = wall + 1
    /\ UNCHANGED <<kind, bytesPerSecond, clock, pc, locals, result, hist>>
    /\ UNCHANGED <<other, arith>>

NextLive == Next \/ TickSleep

\* the wall clock advances, and a goroutine that can run does run
SpecLive ==
    /\ Init
    /\ [][NextLive]_vars
    /\ WF_vars(Tick \/ TickSleep)
    /\ \A c \in Serial : WF_vars(Step(c))

\* ------------------------------------------------- unsynchronized callers
\* Two goroutines call Read/Write of one wrapper with nothing between them:
\* the Pacer has no lock, so the test of line 28, the store of line 29 and
\* the load and the store of line 32 of one goroutine interleave with those
\* of the other.

\* line 28: the test p.clock.IsZero()
PaceIsZero(c) ==
    /\ pc[c] = "l28"
    /\ pc' = [pc EXCEPT ![c] = IF IsZero(clock) THEN "l29" ELSE "l31"]
    /\ UNCHANGED <<kind, bytesPerSecond, clock, wall, locals, result, hist>>
    /\ UNCHANGED <<other, arith>>

\* line 29: the store p.clock = now
PaceSet(c) ==
    /\ pc[c] = "l29"
    /\ clock' = now[c]
    /\ hist' = [hist EXCEPT !.first = TRUE,
                            !.t0 = IF hist.t0 = 0 THEN now[c] ELSE @]
    /\ pc' = [pc EXCEPT ![c] = "l31"]
    /\ UNCHANGED <<kind, bytesPerSecond, wall, locals, result>>
    /\ UNCHANGED <<other, arith>>

\* line 32, the load: the receiver of p.clock.Add(delay) is read
PaceLoad(c) ==
    /\ pc[c] = "l32"
    /\ tmp' = [tmp EXCEPT ![c] = clock]
    /\ pc' = [pc EXCEPT ![c] = "l32w"]
    /\ UNCHANGED <<kind, bytesPerSecond, clock, wall, len, cc, err, pcc, now,
                   delay, wake, result, hist>>
    /\ UNCHANGED <<other, arith>>

\* a store that adds the delay to now instead of the clock loaded
PaceStoreNow(c) ==
    /\ pc[c] = "l32w"
    /\ clock' = Add(now[c], delay[c])
    /\ pc' = [pc EXCEPT ![c] = "l33"]
    /\ UNCHANGED <<kind, bytesPerSecond, wall, locals, result, hist>>
    /\ UNCHANGED <<other, arith>>

\* line 32, the store: the sum is written to p.clock
PaceStore(c) ==
    /\ pc[c] = "l32w"
    /\ clock' = Add(tmp[c], delay[c])
    /\ pc' = [pc EXCEPT ![c] = "l33"]
    /\ UNCHANGED <<kind, bytesPerSecond, wall, locals, result, hist>>
    /\ UNCHANGED <<other, arith>>

\* lines 58-59 and 75-76 with fewer inputs: a buffer of MaxLen bytes, of
\* which the stream transfers n, or none with the error e; at most max calls
Call(c, max, e) ==
    /\ hist.calls < max
    /\ \/ \E n \in 0..MaxLen : Underlying(c, MaxLen, n, "nil")
       \/ Underlying(c, MaxLen, 0, e)

ReadConc(c) ==
    /\ kind = "reader"
    /\ Call(c, MaxConc, "EOF")

WriteConc(c) ==
    /\ kind = "writer"
    /\ Call(c, MaxConc, "err")

StepConc(c) ==
    \/ ErrCheck(c)
    \/ PaceNow(c)
    \/ PaceIsZero(c)
    \/ PaceSet(c)
    \/ PaceDelay(c)
    \/ PaceLoad(c)
    \/ PaceStore(c)
    \/ PaceSleep(c)
    \/ Wake(c)
    \/ Return(c)

NextConc ==
    \/ \E rate \in Rates : NewReaderPacer(rate)
    \/ \E rate \in Rates : NewWriterPacer(rate)
    \/ Tick
    \/ \E c \in Contexts : ReadConc(c)
    \/ \E c \in Contexts : WriteConc(c)
    \/ \E c \in Contexts : StepConc(c)

SpecConc == Init /\ [][NextConc]_vars

\* ------------------------------------------------------------ two wrappers
\* Each constructor allocates a wrapper that embeds its own Pacer by value
\* (lines 39-47, 53 and 70). The program variables kind, bytesPerSecond and
\* clock are the fields of the wrapper the caller has selected; other holds
\* the fields of the second wrapper.

\* the caller turns to the other wrapper (or to making it); the history
\* kept is that of the wrapper selected, since it was selected
Select ==
    /\ Idle
    /\ kind # "none"
    /\ hist.calls < MaxCalls
    /\ kind' = other.kind
    /\ bytesPerSecond' = other.bytesPerSecond
    /\ clock' = other.clock
    /\ other' = [kind |-> kind, bytesPerSecond |-> bytesPerSecond,
                 clock |-> clock]
    /\ hist' = [HistInit EXCEPT !.calls = hist.calls]
    /\ UNCHANGED <<wall, pc, locals, result, arith>>

ReadTwo(c) ==
    /\ kind = "reader"
    /\ Call(c, MaxCalls, "EOF")

WriteTwo(c) ==
    /\ kind = "writer"
    /\ Call(c, MaxCalls, "err")

NextTwo ==
    \/ \E rate \in Rates : NewReaderPacer(rate)
    \/ \E rate \in Rates : NewWriterPacer(rate)
    \/ Tick
    \/ Select
    \/ \E c \in Serial : ReadTwo(c)
    \/ \E c \in Serial : WriteTwo(c)
    \/ \E c \in Serial : Step(c)

SpecTwo == Init /\ [][NextTwo]_vars

\* ------------------------------------------------- line 31 at full width
\* int(time.Second) * cc / p.bytesPerSecond is computed in Go's int, which
\* is 64 bits wide on 64-bit builds and 32 bits wide on 32-bit builds, and
\* wraps around silently. Numbers of that size are kept as sequences of
\* decimal limbs, least significant first, without leading zero limbs; a
\* signed number is a sign and a magnitude.

LimbBase == 10000

\* the widths of int
Widths == {32, 64}

RECURSIVE Norm(_)
Norm(x) ==
    IF x = <<>> THEN x
    ELSE IF x[Len(x)] = 0 THEN Norm(SubSeq(x, 1, Len(x) - 1))
    ELSE x

RECURSIVE FromNat(_)
FromNat(k) ==
    IF k = 0 THEN <<>>
    ELSE <<k % LimbBase>> \o FromNat(k \div LimbBase)

Limb(x, i) == IF i <= Len(x) THEN x[i] ELSE 0

RECURSIVE AddFrom(_, _, _, _)
AddFrom(x, y, i, carry) ==
    IF i > Max(Len(x), Len(y))
      THEN FromNat(carry)
      ELSE LET t == Limb(x, i) + Limb(y, i) + carry
           IN  <<t % LimbBase>> \o AddFrom(x, y, i + 1, t \div LimbBase)

AddL(x, y) == Norm(AddFrom(x, y, 1, 0))

\* x - y for x >= y
RECURSIVE SubFrom(_, _, _, _)
SubFrom(x, y, i, borrow) ==
    IF i > Len(x)
      THEN <<>>
      ELSE LET t == Limb(x, i) - Limb(y, i) - borrow
           IN  IF t < 0 THEN <<t + LimbBase>> \o SubFrom(x, y, i + 1, 1)
                        ELSE <<t>> \o SubFrom(x, y, i + 1, 0)

SubL(x, y) == Norm(SubFrom(x, y, 1, 0))

\* x * k for 0 <= k < LimbBase
RECURSIVE MulFrom(_, _, _, _)
MulFrom(x, k, i, carry) ==
    IF i > Len(x)
      THEN FromNat(carry)
      ELSE LET t == x[i] * k + carry
           IN  <<t % LimbBase>> \o MulFrom(x, k, i + 1, t \div LimbBase)

MulSmall(x, k) == Norm(MulFrom(x, k, 1, 0))

ShiftL(x) == IF x = <<>> THEN x ELSE <<0>> \o x

RECURSIVE MulL(_, _)
MulL(x, y) ==
    IF y = <<>> THEN <<>>
    ELSE AddL(MulSmall(x, Head(y)), ShiftL(MulL(x, Tail(y))))

RECURSIVE LessFrom(_, _, _)
LessFrom(x, y, i) ==
    IF i = 0 THEN FALSE
    ELSE IF x[i] # y[i] THEN x[i] < y[i]
    ELSE LessFrom(x, y, i - 1)

Less(x, y) ==
    IF Len(x) # Len(y) THEN Len(x) < Len(y) ELSE LessFrom(x, y, Len(x))

\* the quotient of x by r for 0 < r < LimbBase, the remainder dropped
RECURSIVE DivFrom(_, _, _, _)
DivFrom(x, r, i, rem) ==
    IF i = 0 THEN <<>>
    ELSE LET t == rem * LimbBase + x[i]
         IN  DivFrom(x, r, i - 1, t % r) \o <<t \div r>>

DivSmall(x, r) == Norm(DivFrom(x, r, Len(x), 0))

RECURSIVE Pow2(_)
Pow2(k) == IF k <= 13 THEN <<2^k>> ELSE MulSmall(Pow2(k - 13), 2^13)

RECURSIVE Mod2(_, _)
Mod2(x, w) == IF Less(x, Pow2(w)) THEN x ELSE Mod2(SubL(x, Pow2(w)), w)

\* an int that is three bits narrower than the build's
ToSignedNarrow(x, w) ==
    LET m == Mod2(x, w - 3)
    IN  IF Less(m, Pow2(w - 4))
          THEN [neg |-> FALSE, mag |-> m]
          ELSE [neg |-> TRUE, mag |-> SubL(Pow2(w - 3), m)]

\* the natural number x as an int of w bits: two's complement wrap-around
ToSigned(x, w) ==
    LET m == Mod2(x, w)
    IN  IF Less(m, Pow2(w - 1))
          THEN [neg |-> FALSE, mag |-> m]
          ELSE [neg |-> TRUE, mag |-> SubL(Pow2(w), m)]

\* Go's / on ints, for a divisor 0 < r < LimbBase: truncation toward zero
QuotInt(a, r) ==
    LET q == DivSmall(a.mag, r)
    IN  [neg |-> a.neg /\ q # <<>>, mag |-> q]

\* int(time.Second): the nanoseconds of a second
SecondNs == FromNat(1000000000)

Zero == [neg |-> FALSE, mag |-> <<>>]

\* byte counts on a 64-bit build: small ones, those around 2^32, the last
\* whose product with 10^9 is below 2^63, and larger ones
Counts64 ==
    {FromNat(k) : k \in {0, 1, 2, 3, 1000, 65536}}
        \cup {Pow2(31), SubL(Pow2(32), <<1>>), Pow2(32),
              AddL(Pow2(32), <<1>>), Pow2(33),
              <<2036, 2337, 92>>, <<2037, 2337, 92>>,
              <<4073, 4467, 184>>, <<4074, 4467, 184>>, Pow2(35)}

\* byte counts on a 32-bit build
Counts32 == {FromNat(k) : k \in {0, 1, 2, 3, 4, 5, 9, 20}}

\* rates of at least 1
ArithRates == {1, 2, 3, 7, 1000, 9999}

ArithInputs ==
    {[stage |-> "in", bits |-> 64, n |-> x, rate |-> r,
      prod |-> Zero, delay |-> Zero] : x \in Counts64, r \in ArithRates}
        \cup
    {[stage |-> "in", bits |-> 32, n |-> x, rate |-> r,
      prod |-> Zero, delay |-> Zero] : x \in Counts32, r \in ArithRates}

InitArith ==
    /\ InitPacer
    /\ arith \in ArithInputs

\* int(time.Second) * cc
ArithMul ==
    /\ arith.stage = "in"
    /\ arith' = [arith EXCEPT !.stage = "mul",
                              !.prod = ToSigned(MulL(SecondNs, arith.n),
                                                arith.bits)]
    /\ UNCHANGED <<kind, bytesPerSecond, clock, wall, pc, locals, result,
                   other, hist>>

\* ... / p.bytesPerSecond
ArithDiv ==
    /\ arith.stage = "mul"
    /\ arith' = [arith EXCEPT !.stage = "div",
                              !.delay = QuotInt(arith.prod, arith.rate)]
    /\ UNCHANGED <<kind, bytesPerSecond, clock, wall, pc, locals, result,
                   other, hist>>

\* time.Duration(...): an int converts to the int64 of a Duration unchanged
ArithConvert ==
    /\ arith.stage = "div"
    /\ arith' = [arith EXCEPT !.stage = "done"]
    /\ UNCHANGED <<kind, bytesPerSecond, clock, wall, pc, locals, result,
                   other, hist>>

NextArith ==
    \/ ArithMul
    \/ ArithDiv
    \/ ArithConvert

SpecArith == InitArith /\ [][NextArith]_vars

\* ------------------------------------------------------------- properties
\* positions of a call inside pace, and those after line 32
InPace   == {"l27", "l28", "l29", "l31", "l32", "l32w", "l33", "sleeping",
             "l36"}
Advanced == {"l33", "sleeping", "l36"}
Decided  == {"sleeping", "l36"}

\* the clock a pace call adds its delay to
Base(c) == IF hist.first THEN now[c] ELSE hist.clock0

\* wall time minus virtual clock when a pace call starts
Slack(c) == now[c] - Base(c)

\* C1: with a rate R > 0 and serialized calls, once k successful transfers
\* have returned, the wall time is at least t0 plus the sum of their delays,
\* and the bytes returned do not exceed R times the time since t0, up to a
\* tolerance of one tick of rounding for each transfer.
C1_RateBound ==
    (bytesPerSecond > 0 /\ hist.n > 0) =>
        /\ wall >= hist.t0 + hist.delays
        /\ Second * hist.bytes < bytesPerSecond * ((wall - hist.t0) + hist.n)

C1_Witness ==
    /\ bytesPerSecond > 0
    /\ hist.n >= 2
    /\ hist.delays >= 2
    /\ hist.lastRet = hist.t0 + hist.delays
    /\ Second * hist.bytes > bytesPerSecond * (wall - hist.t0)

\* C2 as stated: the first pace call on a fresh wrapper does not block.
C2_FirstCallNoStall ==
    hist.first => hist.slept = 0

\* C2 as amended: the first pace call on a fresh wrapper sleeps for exactly
\* its own delay, floor(Second * n / R) for R > 0, no more and no less, so
\* the first transfer returns no earlier than that delay after its pace
\* call began.
C2_FirstCallOwnDelay ==
    \A c \in Contexts :
        (hist.first /\ pc[c] \in Decided) =>
            /\ hist.slept = Max(0, Quot(Second * cc[c], bytesPerSecond))
            /\ bytesPerSecond > 0 =>
                   hist.slept = (Second * cc[c]) \div bytesPerSecond
            /\ pc[c] = "l36" => wall >= now[c] + hist.slept

C2_Witness ==
    \E c \in Contexts :
        /\ pc[c] = "l36"
        /\ hist.first
        /\ cc[c] > 0
        /\ hist.slept = Second * cc[c]
        /\ wall = now[c] + hist.slept

\* C3: a constructor called with a rate <= 0 fails, so no wrapper has a
\* bytesPerSecond <= 0 and pace never runs with one.
C3_InvalidRateRejected ==
    /\ kind # "none" => bytesPerSecond > 0
    /\ \A c \in Contexts : pc[c] \in InPace => bytesPerSecond > 0

\* C4: when the stream returns an error with any count, Read/Write returns
\* that same count and error at once: pace is not entered, nothing is slept
\* and the clock is left as it was, unset included.
C4_FailureTransparency ==
    [][\A c \in Contexts :
          (pc[c] = "l60" /\ err[c] # "nil" /\ pc'[c] # "l60") =>
              /\ pc'[c] = "idle"
              /\ result'[c] = [cc |-> cc[c], err |-> err[c]]
              /\ clock' = clock
              /\ wall' = wall
              /\ hist'.slept = 0]_vars

C4_Witness ==
    \E c \in Contexts :
        /\ pc[c] = "idle"
        /\ result[c].err = "EOF"
        /\ result[c].cc > 0
        /\ clock = ZeroTime
        /\ hist.n = 0

\* C5: a call whose stream returned (n, nil) runs pace(n) to completion and
\* then returns (n, nil): it is never abandoned inside pace.
C5_SuccessTransparency ==
    \A c \in Contexts :
        /\ pc[c] \in InPace => (err[c] = "nil" /\ pcc[c] = cc[c])
        /\ pc[c] # "panicked"

\* C6 as stated: a successful transfer of 0 bytes sleeps nothing and leaves
\* the clock as it was when the call was issued.
C6_ZeroByteUnchanged ==
    \A c \in Contexts :
        (pc[c] = "l36" /\ cc[c] = 0) =>
            (hist.slept = 0 /\ clock = hist.clock0)

\* C6 as amended: a successful transfer of 0 bytes sleeps nothing and leaves
\* a clock that is set as it was; on a fresh wrapper it sets the clock to
\* the wall time its pace call read.
C6_ZeroByte ==
    \A c \in Contexts :
        (pc[c] \in {"l31", "l32", "l33", "sleeping", "l36", "panicked"}
            /\ cc[c] = 0) =>
            /\ pc[c] # "sleeping"
            /\ hist.slept = 0
            /\ clock = (IF IsZero(hist.clock0) THEN now[c] ELSE hist.clock0)

C6_Witness ==
    \E c \in Contexts :
        /\ pc[c] = "l36"
        /\ cc[c] = 0
        /\ hist.n > 0
        /\ hist.clock0 # ZeroTime
        /\ clock = hist.clock0
        /\ bytesPerSecond > 0

\* C7: the clock after an operation is at or after the clock before it, and
\* a clock that is set is never unset.
C7_ClockMonotonic ==
    \A c \in Contexts :
        pc[c] \in {"l36", "panicked"} =>
            /\ clock >= hist.clock0
            /\ hist.clock0 # ZeroTime => clock # ZeroTime

\* C8 as stated: a successful transfer issued with no time passed since the
\* last successful return returns no earlier than its delay after that
\* return (stated for R > 0).
C8_BackToBack ==
    \A c \in Contexts :
        (pc[c] = "l36" /\ hist.lastRet # 0 /\ bytesPerSecond > 0) =>
            wall >= hist.lastRet + (Second * cc[c]) \div bytesPerSecond

\* C8 as amended: a successful transfer that does not initialize the clock
\* returns no earlier than its delay after the virtual clock it found; that
\* is its delay after the last successful return when it was issued with no
\* time passed since that return and that return left the wall time equal
\* to the virtual clock.
C8_BackToBackFromClock ==
    \A c \in Contexts :
        (pc[c] = "l36" /\ ~hist.first) =>
            /\ wall >= hist.clock0 + Quot(Second * cc[c], bytesPerSecond)
            /\ (hist.lastRet # 0 /\ hist.lastRet = hist.clock0) =>
                   wall >= hist.lastRet + Quot(Second * cc[c], bytesPerSecond)

C8_Witness ==
    \E c \in Contexts :
        /\ pc[c] = "l36"
        /\ hist.lastRet # 0
        /\ hist.lastRet = hist.clock0
        /\ cc[c] > 0
        /\ bytesPerSecond = 1
        /\ wall = hist.lastRet + Second * cc[c]

\* C9 as stated, for its bound on the traffic: with R > 0 and a slack > 0, a
\* transfer that is not delayed carries at most slack * R bytes.
C9_BurstWithinSlack ==
    \A c \in Contexts :
        (pc[c] \in Decided /\ ~hist.first /\ bytesPerSecond > 0
            /\ Slack(c) > 0 /\ hist.slept = 0) =>
            Second * cc[c] <= Slack(c) * bytesPerSecond

\* C9 as amended: the sleep of a transfer that finds the clock set is
\* max(0, d - slack), d its own delay floor(Second * n / R) and slack >= 0
\* the wall time its pace call read minus the clock it found: less than d
\* when slack > 0 and d > 0, zero when slack >= d; with R > 0 a transfer is
\* not delayed only if Second * n < (slack + 1) * R, the slack plus the
\* rounding of its delay.
C9_BurstCredit ==
    \A c \in Contexts :
        (pc[c] \in Decided /\ ~hist.first) =>
            /\ Slack(c) >= 0
            /\ delay[c] = Quot(Second * cc[c], bytesPerSecond)
            /\ hist.slept = Max(0, delay[c] - Slack(c))
            /\ (Slack(c) > 0 /\ delay[c] > 0) => hist.slept < delay[c]
            /\ Slack(c) >= delay[c] => hist.slept = 0
            /\ (bytesPerSecond > 0 /\ hist.slept = 0) =>
                   Second * cc[c] < (Slack(c) + 1) * bytesPerSecond

C9_Witness ==
    \E c \in Contexts :
        /\ pc[c] = "sleeping"
        /\ ~hist.first
        /\ Slack(c) > 0
        /\ hist.slept > 0
        /\ hist.slept = delay[c] - Slack(c)

\* C10: pace is called with the count the stream returned, not with the
\* size of the buffer: a Write that returns n < len(data) and no error
\* advances the clock by the delay of n bytes, and so does its retry.
C10_PartialWrite ==
    \A c \in Contexts :
        /\ pc[c] \in InPace => pcc[c] = cc[c]
        /\ pc[c] \in Advanced =>
               clock = Base(c) + Quot(Second * cc[c], bytesPerSecond)

C10_Witness ==
    \E c \in Contexts :
        /\ kind = "writer"
        /\ pc[c] = "l36"
        /\ hist.n > 0
        /\ cc[c] > 0
        /\ cc[c] < len[c]
        /\ bytesPerSecond = 1
        /\ clock = hist.clock0 + Second * cc[c]

\* C11: a pace call whose clock plus delay is at or behind the wall time it
\* read does not sleep and leaves the clock at exactly the clock it found
\* plus the delay: the clock is not moved up to the wall time.
C11_NoCatchUp ==
    \A c \in Contexts :
        (pc[c] \in Decided
            /\ Base(c) + Quot(Second * cc[c], bytesPerSecond) <= now[c]) =>
            /\ pc[c] # "sleeping"
            /\ hist.slept = 0
            /\ clock = Base(c) + Quot(Second * cc[c], bytesPerSecond)

C11_Witness ==
    \E c \in Contexts :
        /\ pc[c] = "l36"
        /\ ~hist.first
        /\ cc[c] > 0
        /\ delay[c] > 0
        /\ clock = hist.clock0 + delay[c]
        /\ clock < now[c]
        /\ hist.slept = 0

\* C12: credit is not capped: after a pause that leaves the clock behind the
\* wall time by E, the successful transfers that follow are not delayed as
\* long as their bytes total at most E * R, however large E is.
C12_UncappedCredit ==
    \A c \in Contexts :
        (pc[c] \in Decided
            /\ Second * (hist.burst + cc[c]) <= hist.credit * bytesPerSecond) =>
            /\ pc[c] # "sleeping"
            /\ hist.slept = 0

C12_Witness ==
    \E c \in Contexts :
        /\ pc[c] = "l36"
        /\ bytesPerSecond > 0
        /\ hist.credit >= 2 * Second
        /\ hist.burst > 0
        /\ cc[c] > 0
        /\ Second * (hist.burst + cc[c]) = hist.credit * bytesPerSecond
        /\ hist.slept = 0

\* C13: with serialized calls and a rate R > 0 every Read/Write whose stream
\* has returned does return; a pace call asks for a sleep of at most its own
\* delay, and when it returns the wall time is at or after the clock.
C13_Safe ==
    \A c \in Contexts :
        (bytesPerSecond > 0 /\ pc[c] \in Decided) =>
            /\ hist.slept <= (Second * cc[c]) \div bytesPerSecond
            /\ pc[c] = "sleeping" => wake[c] <= wall + hist.slept
            /\ pc[c] = "l36" => wall >= clock

C13_BoundedBlocking ==
    /\ []C13_Safe
    /\ \A c \in Contexts :
           (bytesPerSecond > 0 /\ pc[c] \in (InPace \cup {"l60"}))
               ~> (pc[c] = "idle")

C13_Witness ==
    \E c \in Contexts :
        /\ pc[c] = "l36"
        /\ bytesPerSecond > 0
        /\ ~hist.first
        /\ hist.slept > 0
        /\ hist.slept < delay[c]
        /\ wall > StartTime + Horizon

\* C14: the clock stays unset until the first successful transfer is paced,
\* and once transfers have returned and no call is in progress it is t0 plus
\* the sum of floor(Second * s / R) over the transfers returned.
C14_ClockAccounting ==
    /\ ~IsZero(clock) => hist.t0 # 0
    /\ (Idle /\ hist.n > 0) => clock = hist.t0 + hist.floors

\* C14 for the rates the specification allows: it holds when R > 0.
C14_ForPositiveRate ==
    bytesPerSecond > 0 => C14_ClockAccounting

\* C15: the pacer's clock is not synchronized. When two goroutines use one
\* wrapper and no call starts while another is in progress (the callers
\* exclude one another), the clock after the calls is t0 plus the sum of the
\* delays of the transfers that returned, and for a positive rate the wall
\* time has reached it; when calls do overlap, an update of the clock can be
\* lost (C15_LostUpdate), and the bytes returned are ahead of the rate.
C15_MutualExclusion ==
    (~hist.overlap /\ Idle /\ hist.n > 0) =>
        /\ clock = hist.t0 + hist.delays
        /\ bytesPerSecond > 0 => wall >= hist.t0 + hist.delays

\* two overlapping calls have returned, one update of the clock is lost, and
\* the wall time is before t0 plus the delays of the two transfers
C15_LostUpdate ==
    /\ hist.overlap
    /\ Idle
    /\ bytesPerSecond > 0
    /\ hist.n = 2
    /\ clock < hist.t0 + hist.delays
    /\ wall < hist.t0 + hist.delays

\* C16: two wrappers each own their Pacer. Every step of a Read or Write on
\* the wrapper selected (every step but the caller's change of wrapper)
\* leaves the clock and the bytesPerSecond of the other wrapper as they
\* were, and the sleep of a pace call is determined by the selected
\* wrapper's own clock as its call found it, its own rate and its own byte
\* count: bytes moved through the other wrapper do not enter it.
C16_OwnSleep ==
    \A c \in Contexts :
        (pc[c] \in Decided /\ bytesPerSecond # 0) =>
            hist.slept = Max(0, Base(c) + Quot(Second * cc[c], bytesPerSecond)
                                  - now[c])

C16_InstanceIndependence ==
    /\ [][Select \/ other' = other]_vars
    /\ []C16_OwnSleep

\* a transfer through one wrapper is paced after the other wrapper, of a
\* different rate, has moved bytes and advanced its own clock
C16_Witness ==
    /\ other.kind # "none"
    /\ ~IsZero(other.clock)
    /\ kind # "none"
    /\ bytesPerSecond > 0
    /\ other.bytesPerSecond > 0
    /\ bytesPerSecond # other.bytesPerSecond
    /\ pc[1] = "l36"
    /\ cc[1] > 0
    /\ hist.slept > 0
    /\ clock # other.clock

\* the product 10^9 * n and the quotient floor(10^9 * n / R) as numbers
Product == MulL(SecondNs, arith.n)

Exact == DivSmall(Product, arith.rate)

\* C17: where int is 64 bits wide, for every byte count n <= 2^32 and every
\* rate R >= 1 the product 10^9 * n does not wrap around, and the delay is
\* non-negative and equal to floor(10^9 * n / R): R * delay <= 10^9 * n <
\* R * (delay + 1). At either width a delay that is negative or differs from
\* that quotient occurs only when 10^9 * n is not below 2^(width - 1).
C17_DelayArithmetic ==
    arith.stage \in {"div", "done"} =>
        /\ (arith.bits = 64 /\ ~Less(Pow2(32), arith.n)) =>
              /\ ~arith.prod.neg
              /\ arith.prod.mag = Product
              /\ ~arith.delay.neg
              /\ arith.delay.mag = Exact
              /\ ~Less(Product, MulSmall(arith.delay.mag, arith.rate))
              /\ Less(Product, MulSmall(AddL(arith.delay.mag, <<1>>),
                                        arith.rate))
        /\ (arith.delay.neg \/ arith.delay.mag # Exact) =>
              ~Less(Product, Pow2(arith.bits - 1))

\* the delay of 2^32 bytes at 7 bytes per second has been computed at 64
\* bits: 613566756571428571 ns
C17_Witness ==
    /\ arith.stage = "done"
    /\ arith.bits = 64
    /\ arith.n = Pow2(32)
    /\ arith.rate = 7
    /\ arith.delay = [neg |-> FALSE, mag |-> <<8571, 7142, 7565, 3566, 61>>]

\* beyond the range a delay that is wrong has been computed: negative at 64
\* bits for 9223372037 bytes, and at 32 bits for 3 bytes
C17_Wrapped ==
    /\ arith.stage = "done"
    /\ arith.delay.neg
    /\ \/ arith.bits = 64 /\ arith.n = <<2037, 2337, 92>>
       \/ arith.bits = 32 /\ arith.n = <<3>>

====
